---- MODULE Spec2Model ----
(***************************************************************************)
(* The control loop of k8s-spot-rescheduler (rescheduler.go): run(), the   *)
(* taint reconciler, the placement planner (findSpotNodeForPod,            *)
(* canDrainNode) and drainNode.                                            *)
(*                                                                         *)
(* One tick of the `for { select { case <-time.After(...) } }` loop is     *)
(* taken in sequential steps, each step one stretch of run():              *)
(*   idle --TickListed--> listed --TickStart--> taints --TaintsDone-->     *)
(*        loop --FilterPods--> plan --PlanNode--> draining --DrainNode-->  *)
(*        idle                                                             *)
(* What the listers, the drain helper and the drain executor return is     *)
(* input, drawn from small sets at the call that reads it.  The predicate  *)
(* checker and the forkable snapshot are library code; they are modelled   *)
(* by their documented contract (CPU capacity, Fork/Revert/AddPod).        *)
(***************************************************************************)
EXTENDS Integers, Sequences, FiniteSets, TLC

\* ------------------------------------------------------------------ bounds
MaxClock == 3
MaxSpot == 2
MaxOnDemand == 2
MaxPods == 2
MaxTaints == 2

\* --------------------------------------------------------- program constants
\* --housekeeping-interval and --node-drain-delay, in model time units
HousekeepingInterval == 1
NodeDrainDelay == 2

\* ------------------------------------------------------------ input domains
\* time.After fires one interval after it was set, or one unit late
TickDelays == {HousekeepingInterval, HousekeepingInterval + 1}
\* how long scaler.DrainNode runs
DrainTimes == {0, 1}
\* CPU of a spot node: allocatable, and requested by the pods already on it
\* (requested may exceed allocatable: over-commit is possible)
AllocValues == {2}
RequestedValues == {0, 1, 2, 3}
PodCpus == {1}
TaintKeys == {"preempt", "gpu"}
\* the --spot-node-taint-to-be-removed flag: unset, or a key
TaintFlagValues == {"", "preempt"}
\* the cluster-autoscaler.kubernetes.io/safe-to-evict annotation: "false" or not set
SafeToEvictValues == {"false", ""}

NoNode == 0
NoTime == 0 - 1

\* metav1.OwnerReference: Kind and the *bool Controller ("nil" when unset)
OwnerRef(kind, controller) == [kind |-> kind, controller |-> controller]

OwnerChoices ==
    { <<OwnerRef("ReplicaSet", "true")>>,
      <<OwnerRef("DaemonSet", "true")>>,
      <<OwnerRef("ReplicaSet", "nil")>>,
      <<OwnerRef("ReplicaSet", "false"), OwnerRef("DaemonSet", "true")>> }

\* apiv1.Pod as the loop reads it: Spec.NodeName, the summed container CPU
\* requests, the safe-to-evict annotation and the owner references.  listedOn is the
\* node whose NodeInfo.Pods holds the pod: it stands for the pod's namespace and name,
\* which nothing in the loop assigns.
PodsOn_AnyNode(node) ==
    UNION {[nodeName : {m}, listedOn : {m}, cpu : PodCpus, safeToEvict : SafeToEvictValues,
            owners : OwnerChoices] : m \in 1..MaxOnDemand}

PodsOn(node) ==
    [nodeName : {node}, listedOn : {node}, cpu : PodCpus, safeToEvict : SafeToEvictValues,
     owners : OwnerChoices]

SeqsUpTo(S, n) == UNION {[1..k -> S] : k \in 0..n}

\* nodes.NodeInfo of a spot node
SpotNodeInfo == [alloc : AllocValues, requested : RequestedValues]

\* nodeMap[nodes.Spot]: sorted by requested CPU, fullest first
SpotNodeInfoArrays ==
    {s \in SeqsUpTo(SpotNodeInfo, MaxSpot) :
        \A i \in 1..(Len(s) - 1) : s[i].requested >= s[i + 1].requested}

\* nodeMap[nodes.OnDemand]: the nodes by name, in the order the NodeMap gives
OnDemandNodeInfoArrays == {[i \in 1..n |-> i] : n \in 0..MaxOnDemand}

\* unschedulablePodLister.List(): the number of pods listed, and whether it failed
UnschedulableResults == {[n |-> 0, err |-> FALSE], [n |-> 0, err |-> TRUE], [n |-> 1, err |-> FALSE]}

TaintArrays == SeqsUpTo(TaintKeys, MaxTaints)

\* autoscaler_drain.GetPodsForDeletionOnNodeDrain: whether it returns a blockingPod and
\* whether it returns an error.  The helper returns a blocking pod only together with
\* the error that says why it blocks (the one line 240 logs), and no pods with an error.
HelperResults ==
    {[blockingPod |-> FALSE, err |-> FALSE],
     [blockingPod |-> FALSE, err |-> TRUE],
     [blockingPod |-> TRUE, err |-> TRUE]}

VARIABLES
    pc,                   \* where run() is: idle, listed, taints, loop, plan, draining, crashed
    clock,                \* time.Now()
    nextDrainTime,
    spotTaintToBeRemoved, \* the flag
    tickStart,            \* when the current (or last) tick began
    unschedulablePods,    \* len(unschedulablePods) listed in this tick
    listErr,              \* err of the listers of a tick, up to where the tick is (FALSE: nil)
    reconciled,           \* removeTaintFromAllSpotNodes was called in this tick
    drains,               \* calls of drainNode in this tick
    onDemandNodeInfos,
    spotNodeInfos,
    spotSnapshot,
    spotIdx,              \* position of the taint reconciler in spotNodeInfos
    nodeTaints,           \* the spot node the reconciler last worked on: its Spec.Taints as
                          \* listed and as left, and whether an Update failed; <<>>: none
    idx,                  \* position of the per-node loop in onDemandNodeInfos
    blockingPod,          \* the helper returned a blockingPod for the node last looked at
    podsForDeletion,
    placement,            \* per pod of podsForDeletion, the spot node the plan chose
    ignored,              \* pods of the current node ignored as controlled by a DaemonSet
    outcomes,             \* what became of each on-demand node evaluated in this tick
    lastDrainEnd,         \* when the last drainNode returned
    drainErr,             \* err of the drainNode call of this tick (FALSE: nil)
    nodeDrainCount,       \* metrics: drain attempts by outcome, summed over the nodes
    stopChannel           \* the channel the listers and the predicate checker watch

vars == <<pc, clock, nextDrainTime, spotTaintToBeRemoved, tickStart, unschedulablePods,
          listErr, reconciled, drains, onDemandNodeInfos, spotNodeInfos, spotSnapshot, spotIdx,
          nodeTaints, idx, blockingPod, podsForDeletion, placement, ignored, outcomes,
          lastDrainEnd, drainErr, nodeDrainCount, stopChannel>>

\* what a tick leaves alone unless it drains
process == <<nextDrainTime, spotTaintToBeRemoved, lastDrainEnd, nodeDrainCount, stopChannel>>

\* ---------------------------------------------------------------- snapshot
NoSnapshot == [nodes |-> <<>>, saved |-> <<>>, forked |-> FALSE]

GetClusterSnapshot(infos) == [nodes |-> infos, saved |-> <<>>, forked |-> FALSE]

Fork(snap) == [nodes |-> snap.nodes, saved |-> snap.nodes, forked |-> TRUE]

Revert(snap) ==
    IF snap.forked THEN [nodes |-> snap.saved, saved |-> <<>>, forked |-> FALSE] ELSE snap

AddPod(snap, pod, name) ==
    [snap EXCEPT !.nodes[name].requested = @ + pod.cpu]

CheckPredicates(snap, pod, name) ==
    snap.nodes[name].requested + pod.cpu <= snap.nodes[name].alloc

\* ------------------------------------------------------------ taint reconciler
\* The body of `for i, taint := range spotNodeInfo.Node.Spec.Taints`.  The range
\* expression is evaluated once: i runs over the original length and taint is read
\* from the backing array arr, while Spec.Taints is arr[1..len] and shrinks with
\* every removal.  Indexing Spec.Taints at i beyond len panics.
RECURSIVE RangeTaints(_, _, _, _)
RangeTaints(arr, len, i, key) ==
    IF i > Len(arr) THEN [taints |-> SubSeq(arr, 1, len), panic |-> FALSE]
    ELSE IF arr[i] # key THEN RangeTaints(arr, len, i + 1, key)
    ELSE IF i > len THEN [taints |-> SubSeq(arr, 1, len), panic |-> TRUE]
    ELSE RangeTaints([arr EXCEPT ![i] = arr[len]], len - 1, i + 1, key)

\* the inner loop of removeTaintFromAllSpotNodes on the Spec.Taints of one spot node
RemoveTaintFromNode(taints, key) == RangeTaints(taints, Len(taints), 1, key)

\* ------------------------------------------------------------ daemon-set filter
\* `for _, owner := range pod.GetOwnerReferences()`: "yes", "no", or "panic" when
\* *owner.Controller dereferences a nil pointer
ControlledFrom_FirstOwnerOnly(owners, i) ==
    IF i > Len(owners) THEN "no"
    ELSE IF owners[i].controller = "nil" THEN "panic"
    ELSE IF owners[i].controller = "true" /\ owners[i].kind = "DaemonSet" THEN "yes"
    ELSE "no"

RECURSIVE ControlledFrom(_, _)
ControlledFrom(owners, i) ==
    IF i > Len(owners) THEN "no"
    ELSE IF owners[i].controller = "nil" THEN "panic"
    ELSE IF owners[i].controller = "true" /\ owners[i].kind = "DaemonSet" THEN "yes"
    ELSE ControlledFrom(owners, i + 1)

ControlledByDaemonSet(pod) == ControlledFrom(pod.owners, 1)

\* podsForDeletion as built from allPods
PodsForDeletion(allPods) == SelectSeq(allPods, LAMBDA pod : ControlledByDaemonSet(pod) = "no")

FilterPanics(allPods) == \E i \in DOMAIN allPods : ControlledByDaemonSet(allPods[i]) = "panic"

\* --------------------------------------------------------------------- planner
\* `for _, nodeInfo := range nodes` from node j on
RECURSIVE FirstAccepting_Last(_, _, _, _)
FirstAccepting_Last(snap, nodes, pod, j) ==
    IF j > Len(nodes) THEN NoNode
    ELSE LET later == FirstAccepting_Last(snap, nodes, pod, j + 1)
         IN  IF later # NoNode THEN later
             ELSE IF CheckPredicates(snap, pod, j) THEN j
             ELSE NoNode

RECURSIVE FirstAccepting(_, _, _, _)
FirstAccepting(snap, nodes, pod, j) ==
    IF j > Len(nodes) THEN NoNode
    ELSE IF CheckPredicates(snap, pod, j) THEN j
    ELSE FirstAccepting(snap, nodes, pod, j + 1)

\* findSpotNodeForPod: the name of the first node whose predicates accept the pod
FindSpotNodeForPod(snap, nodes, pod) == FirstAccepting(snap, nodes, pod, 1)

\* `pod.Spec.NodeName = ""`, done in every iteration over the spot nodes, on the
\* pod the caller passed
PretendUnscheduled(nodes, pod) ==
    IF Len(nodes) > 0 THEN [pod EXCEPT !.nodeName = NoNode] ELSE pod

\* canDrainNode from pod i on; chosen is the plan so far
RECURSIVE CanDrainFrom_NoAddPod(_, _, _, _, _)
CanDrainFrom_NoAddPod(snap, nodes, pods, i, chosen) ==
    IF i > Len(pods) THEN [err |-> FALSE, snapshot |-> snap, pods |-> pods, placement |-> chosen]
    ELSE LET nodeName == FindSpotNodeForPod(snap, nodes, pods[i])
             pod == PretendUnscheduled(nodes, pods[i])
             seen == [pods EXCEPT ![i] = pod]
         IN  IF nodeName = NoNode
             THEN IF pod.safeToEvict = "false"
                  THEN [err |-> TRUE, snapshot |-> snap, pods |-> seen, placement |-> chosen]
                  ELSE CanDrainFrom_NoAddPod(snap, nodes, seen, i + 1, Append(chosen, NoNode))
             ELSE CanDrainFrom_NoAddPod(snap, nodes, seen, i + 1, Append(chosen, nodeName))

RECURSIVE CanDrainFrom(_, _, _, _, _)
CanDrainFrom(snap, nodes, pods, i, chosen) ==
    IF i > Len(pods) THEN [err |-> FALSE, snapshot |-> snap, pods |-> pods, placement |-> chosen]
    ELSE LET nodeName == FindSpotNodeForPod(snap, nodes, pods[i])
             pod == PretendUnscheduled(nodes, pods[i])
             seen == [pods EXCEPT ![i] = pod]
         IN  IF nodeName = NoNode
             THEN IF pod.safeToEvict = "false"
                  THEN [err |-> TRUE, snapshot |-> snap, pods |-> seen, placement |-> chosen]
                  ELSE CanDrainFrom(snap, nodes, seen, i + 1, Append(chosen, NoNode))
             ELSE CanDrainFrom(AddPod(snap, pod, nodeName), nodes, seen, i + 1,
                               Append(chosen, nodeName))

CanDrainNode(snap, nodes, pods) == CanDrainFrom(snap, nodes, pods, 1, <<>>)

\* ------------------------------------------------------------------------ Init
\* run() up to `nextDrainTime := time.Now()`
Init ==
    /\ pc = "idle"
    /\ clock = 0
    /\ nextDrainTime = 0
    /\ spotTaintToBeRemoved \in TaintFlagValues
    /\ tickStart = 0
    /\ unschedulablePods = 0
    /\ listErr = FALSE
    /\ reconciled = FALSE
    /\ drains = 0
    /\ onDemandNodeInfos = <<>>
    /\ spotNodeInfos = <<>>
    /\ spotSnapshot = NoSnapshot
    /\ spotIdx = 0
    /\ nodeTaints = <<>>
    /\ idx = 0
    /\ blockingPod = FALSE
    /\ podsForDeletion = <<>>
    /\ placement = <<>>
    /\ ignored = 0
    /\ outcomes = <<>>
    /\ lastDrainEnd = NoTime
    /\ drainErr = FALSE
    /\ nodeDrainCount = [Success |-> 0, Failure |-> 0]
    /\ stopChannel = "open"

\* ------------------------------------------------------------------- the tick
\* `case <-time.After(*housekeepingInterval)`: a tick begins, d after the last
\* one ended; what the tick before recorded is dropped
TimerFires(d) ==
    /\ pc = "idle"
    /\ clock + d <= MaxClock
    /\ clock' = clock + d
    /\ tickStart' = clock + d
    /\ drains' = 0
    /\ reconciled' = FALSE
    /\ idx' = 0
    /\ blockingPod' = FALSE
    /\ drainErr' = FALSE
    /\ ignored' = 0
    /\ outcomes' = <<>>
    /\ podsForDeletion' = <<>>
    /\ placement' = <<>>

\* `continue` before anything was built
Skip ==
    /\ pc' = "idle"
    /\ listErr' = FALSE
    /\ onDemandNodeInfos' = <<>>
    /\ spotNodeInfos' = <<>>
    /\ spotSnapshot' = NoSnapshot
    /\ spotIdx' = 0
    /\ nodeTaints' = <<>>
    /\ UNCHANGED process

\* `time.Until(nextDrainTime) > 0`
WaitingForDrainDelay(now) == nextDrainTime - now > 0

\* `len(unschedulablePods) > 0`
UnschedulableGate_OffByOne(listed) == listed.n > 1

UnschedulableGate(listed) == listed.n > 0

\* the loop body ends: the snapshot and the plan are dropped; the NodeMap and the
\* position the loop stopped at stay until the next tick
EndTick ==
    /\ pc' = "idle"
    /\ listErr' = FALSE
    /\ spotNodeInfos' = <<>>
    /\ spotSnapshot' = NoSnapshot
    /\ spotIdx' = 0
    /\ nodeTaints' = <<>>
    /\ blockingPod' = FALSE
    /\ podsForDeletion' = <<>>
    /\ placement' = <<>>
    /\ ignored' = 0
    /\ outcomes' = <<>>
    /\ UNCHANGED <<onDemandNodeInfos, idx>>

TickWaiting_Rearms ==
    \E d \in TickDelays :
        /\ TimerFires(d)
        /\ WaitingForDrainDelay(clock + d)
        /\ unschedulablePods' = 0
        /\ pc' = "idle"
        /\ listErr' = FALSE
        /\ onDemandNodeInfos' = <<>>
        /\ spotNodeInfos' = <<>>
        /\ spotSnapshot' = NoSnapshot
        /\ spotIdx' = 0
        /\ nodeTaints' = <<>>
        /\ nextDrainTime' = clock + d + NodeDrainDelay
        /\ UNCHANGED <<spotTaintToBeRemoved, lastDrainEnd, nodeDrainCount, stopChannel>>

\* the drain delay timer is running: `continue`
TickWaiting ==
    \E d \in TickDelays :
        /\ TimerFires(d)
        /\ WaitingForDrainDelay(clock + d)
        /\ unschedulablePods' = 0
        /\ Skip

\* unschedulable pods are listed: `continue`
TickUnschedulable ==
    \E d \in TickDelays, listed \in UnschedulableResults :
        /\ TimerFires(d)
        /\ ~WaitingForDrainDelay(clock + d)
        /\ UnschedulableGate(listed)
        /\ unschedulablePods' = listed.n
        /\ Skip

\* both gates passed: "Starting node processing.", whether or not
\* unschedulablePodLister.List returned an error (it is logged, and the tick goes on)
TickListed ==
    \E d \in TickDelays, listed \in UnschedulableResults :
        /\ TimerFires(d)
        /\ ~WaitingForDrainDelay(clock + d)
        /\ ~UnschedulableGate(listed)
        /\ unschedulablePods' = listed.n
        /\ listErr' = listed.err
        /\ pc' = "listed"
        /\ UNCHANGED <<onDemandNodeInfos, spotNodeInfos, spotSnapshot, spotIdx, nodeTaints>>
        /\ UNCHANGED process

\* what stays as it is from "Starting node processing." to the taint reconciler
Listing == <<clock, tickStart, unschedulablePods, reconciled, drains, nodeTaints, idx,
             blockingPod, podsForDeletion, placement, ignored, outcomes, drainErr>>

\* nodeLister.List, nodes.NewNodeMap or podDisruptionBudgetLister.List fails: `continue`
TickListFailed ==
    \E failed \in {"nodeLister", "NewNodeMap", "podDisruptionBudgetLister"} :
        /\ pc = "listed"
        /\ Skip
        /\ UNCHANGED Listing

\* everything listed: err is nil again, the NodeMap and the spot snapshot are built
TickStart ==
    \E onDemand \in OnDemandNodeInfoArrays, spot \in SpotNodeInfoArrays :
        /\ pc = "listed"
        /\ listErr' = FALSE
        /\ onDemandNodeInfos' = onDemand
        /\ spotNodeInfos' = spot
        /\ spotSnapshot' = GetClusterSnapshot(spot)
        /\ pc' = "taints"
        /\ spotIdx' = 1
        /\ UNCHANGED Listing
        /\ UNCHANGED process

\* removeTaintFromAllSpotNodes(kubeClient, spotNodeInfos) with no taint configured,
\* or past the last spot node: on to the per-node loop
TaintsDone ==
    /\ pc = "taints"
    /\ spotTaintToBeRemoved = "" \/ spotIdx > Len(spotNodeInfos)
    /\ reconciled' = TRUE
    /\ nodeTaints' = <<>>
    /\ pc' = "loop"
    /\ idx' = 1
    /\ UNCHANGED <<drainErr, clock, tickStart, unschedulablePods, listErr, drains, onDemandNodeInfos,
                   spotNodeInfos, spotSnapshot, spotIdx, blockingPod, podsForDeletion, placement,
                   ignored, outcomes>>
    /\ UNCHANGED process

\* one iteration of `for _, spotNodeInfo := range spotNodeInfos`; taints is the
\* Spec.Taints of spotNodeInfos[spotIdx] as listed
RemoveTaints ==
    \E taints \in TaintArrays, updateFailed \in BOOLEAN :
        LET removed == RemoveTaintFromNode(taints, spotTaintToBeRemoved)
        IN  /\ pc = "taints"
            /\ spotTaintToBeRemoved # ""
            /\ spotIdx <= Len(spotNodeInfos)
            \* Nodes().Update is called, and may fail, after a taint was removed
            /\ updateFailed => Len(removed.taints) < Len(taints)
            /\ reconciled' = TRUE
            /\ nodeTaints' = <<[listed |-> taints, left |-> removed.taints,
                                updateFailed |-> updateFailed]>>
            /\ IF removed.panic
               THEN pc' = "crashed" /\ spotIdx' = spotIdx
               ELSE pc' = "taints" /\ spotIdx' = spotIdx + 1
            /\ UNCHANGED <<drainErr, clock, tickStart, unschedulablePods, listErr, drains,
                           onDemandNodeInfos, spotNodeInfos, spotSnapshot, idx, blockingPod,
                           podsForDeletion, placement, ignored, outcomes>>
            /\ UNCHANGED process

\* `continue` in the per-node loop
NextNode(outcome) ==
    /\ pc' = "loop"
    /\ idx' = idx + 1
    /\ outcomes' = Append(outcomes, outcome)

\* `if err != nil { ...; continue }` after the helper
HelperFailed_Unchecked(result) == FALSE

HelperFailed(result) == result.err

\* `len(podsForDeletion) < 1`: "No pods on %s, skipping."
NoPods_Never(pods) == FALSE

NoPods(pods) == Len(pods) < 1

\* the head of the per-node loop, for onDemandNodeInfos[idx]: what
\* autoscaler_drain.GetPodsForDeletionOnNodeDrain returns for the pods of the node
\* (allPods, blockingPod and err; blockingPod is only logged), then the daemon-set
\* filter
FilterPods ==
    /\ pc = "loop"
    /\ idx <= Len(onDemandNodeInfos)
    /\ \E result \in HelperResults, n \in 0..MaxPods :
      \E allPods \in [1..n -> PodsOn(onDemandNodeInfos[idx])] :
        /\ result.err => n = 0
        /\ blockingPod' = result.blockingPod
        /\ placement' = <<>>
        /\ IF HelperFailed(result)
           THEN NextNode("filterError") /\ podsForDeletion' = <<>> /\ ignored' = 0
           ELSE IF FilterPanics(allPods)
           THEN pc' = "crashed" /\ UNCHANGED <<idx, outcomes, podsForDeletion, ignored>>
           ELSE IF NoPods(PodsForDeletion(allPods))
           THEN NextNode("noPods") /\ podsForDeletion' = <<>> /\ ignored' = 0
           ELSE /\ pc' = "plan"
                /\ podsForDeletion' = PodsForDeletion(allPods)
                /\ ignored' = Len(allPods) - Len(PodsForDeletion(allPods))
                /\ UNCHANGED <<idx, outcomes>>
        /\ UNCHANGED <<drainErr, clock, tickStart, unschedulablePods, listErr, reconciled, drains,
                       onDemandNodeInfos, spotNodeInfos, spotSnapshot, spotIdx, nodeTaints>>
        /\ UNCHANGED process

\* the snapshot after canDrainNode failed
PlanFailed_NoRevert(snap) == snap

PlanFailed(snap) == Revert(snap)

\* spotSnapshot.Fork(), canDrainNode, and on failure Revert and `continue`
PlanNode ==
    LET plan == CanDrainNode(Fork(spotSnapshot), spotNodeInfos, podsForDeletion)
    IN  /\ pc = "plan"
        /\ placement' = plan.placement
        /\ IF plan.err
           THEN /\ spotSnapshot' = PlanFailed(plan.snapshot)
                /\ NextNode("planFailed")
                /\ podsForDeletion' = <<>>
                /\ ignored' = 0
           ELSE /\ spotSnapshot' = plan.snapshot
                /\ pc' = "draining"
                /\ podsForDeletion' = plan.pods
                /\ UNCHANGED <<idx, outcomes, ignored>>
        /\ UNCHANGED <<drainErr, clock, tickStart, unschedulablePods, listErr, reconciled, drains,
                       onDemandNodeInfos, spotNodeInfos, spotIdx, nodeTaints, blockingPod>>
        /\ UNCHANGED process

\* metrics.UpdateNodeDrainCount(outcome, node.Name); the counters are kept summed
\* over the node label
UpdateNodeDrainCount(counts, outcome, node) == [counts EXCEPT ![outcome] = @ + 1]

\* the counters after drainNode: Failure and `return err`, or Success
DrainNodeCounts_NoReturn(failed, node) ==
    IF failed
    THEN UpdateNodeDrainCount(UpdateNodeDrainCount(nodeDrainCount, "Failure", node),
                              "Success", node)
    ELSE UpdateNodeDrainCount(nodeDrainCount, "Success", node)

DrainNodeCounts(failed, node) ==
    IF failed
    THEN UpdateNodeDrainCount(nodeDrainCount, "Failure", node)
    ELSE UpdateNodeDrainCount(nodeDrainCount, "Success", node)

\* drainNode returns after `took`, with or without an error; armed is the new
\* nextDrainTime and break says whether the per-node loop is left
Drained(failed, took, armed, break) ==
    /\ pc = "draining"
    /\ clock + took <= MaxClock
    /\ clock' = clock + took
    /\ lastDrainEnd' = clock + took
    /\ drains' = drains + 1
    /\ drainErr' = failed
    /\ nodeDrainCount' = DrainNodeCounts(failed, onDemandNodeInfos[idx])
    /\ nextDrainTime' = armed
    /\ IF break
       THEN EndTick
       ELSE /\ NextNode("drained")
            /\ UNCHANGED <<listErr, onDemandNodeInfos, spotNodeInfos, spotSnapshot, spotIdx,
                           nodeTaints, blockingPod, podsForDeletion, placement, ignored>>
    /\ UNCHANGED <<spotTaintToBeRemoved, tickStart, unschedulablePods, reconciled, stopChannel>>

DrainAndArm_NoBreak(failed, took) ==
    Drained(failed, took, clock + took + NodeDrainDelay, FALSE)

DrainAndArm_OnSuccessOnly(failed, took) ==
    Drained(failed, took, IF failed THEN nextDrainTime ELSE clock + took + NodeDrainDelay, TRUE)

DrainAndArm_FromTickStart(failed, took) ==
    Drained(failed, took, tickStart + NodeDrainDelay, TRUE)

\* drainNode(...), `nextDrainTime = time.Now().Add(*nodeDrainDelay)`, `break`
DrainAndArm(failed, took) ==
    Drained(failed, took, clock + took + NodeDrainDelay, TRUE)

DrainNode == \E failed \in BOOLEAN, took \in DrainTimes : DrainAndArm(failed, took)

FinishTick_Arms ==
    /\ pc = "loop"
    /\ idx > Len(onDemandNodeInfos)
    /\ EndTick
    /\ nextDrainTime' = clock + NodeDrainDelay
    /\ UNCHANGED <<clock, tickStart, unschedulablePods, reconciled, drains, drainErr>>
    /\ UNCHANGED <<spotTaintToBeRemoved, lastDrainEnd, nodeDrainCount, stopChannel>>

\* the per-node loop ran out of on-demand nodes: "Finished processing nodes."
FinishTick ==
    /\ pc = "loop"
    /\ idx > Len(onDemandNodeInfos)
    /\ EndTick
    /\ UNCHANGED <<clock, tickStart, unschedulablePods, reconciled, drains, drainErr>>
    /\ UNCHANGED process

Next ==
    \/ TickWaiting
    \/ TickUnschedulable
    \/ TickListed
    \/ TickListFailed
    \/ TickStart
    \/ RemoveTaints
    \/ TaintsDone
    \/ FilterPods
    \/ PlanNode
    \/ DrainNode
    \/ FinishTick

Spec == Init /\ [][Next]_vars

\* The process-wide stop signal.  run() makes stopChannel and hands it to the listers
\* and the predicate checker; nothing in rescheduler.go closes it, and the select of
\* the loop has the timer case only.  Stop is the close a stop request would do, at
\* any moment; the loop goes on as in Next.
Stop ==
    /\ stopChannel = "open"
    /\ stopChannel' = "closed"
    /\ UNCHANGED <<pc, clock, nextDrainTime, spotTaintToBeRemoved, tickStart, unschedulablePods,
                   listErr, reconciled, drains, onDemandNodeInfos, spotNodeInfos, spotSnapshot,
                   spotIdx, nodeTaints, idx, blockingPod, podsForDeletion, placement, ignored,
                   outcomes, lastDrainEnd, drainErr, nodeDrainCount>>

NextOrStop == Next \/ Stop

SpecStop == Init /\ [][NextOrStop]_vars

\* `case <-time.After(*housekeepingInterval)`: the timer fires and a tick begins
Tick == TickWaiting \/ TickUnschedulable \/ TickListed

\* The loop under fair ticks: the select is entered again after every tick and its
\* timer fires, as long as the clock of the model can advance.
SpecFair == Init /\ [][Next]_vars /\ WF_vars(Tick)

\* ---------------------------------------------------------------- properties
\* the CPU the plan placed on spot node j: the requests of the pods of
\* podsForDeletion whose placement is j
RECURSIVE PlacedCpuFrom(_, _)
PlacedCpuFrom(j, i) ==
    IF i > Len(placement) THEN 0
    ELSE (IF placement[i] = j THEN podsForDeletion[i].cpu ELSE 0) + PlacedCpuFrom(j, i + 1)

PlacedCpu(j) == PlacedCpuFrom(j, 1)

OwnedByDaemonSetController(pod) ==
    \E k \in DOMAIN pod.owners :
        pod.owners[k].kind = "DaemonSet" /\ pod.owners[k].controller = "true"

\* C1: whenever the drain executor is invoked for a node, every pod of the node's
\* movable set was assigned to some spot node by the plan.
C1_EveryPodHasLandingSpot ==
    pc = "draining" => \A i \in DOMAIN podsForDeletion : placement[i] # NoNode

\* C2: at most one drain per tick: drainNode is called at most once in a tick, and
\* once it was called no further on-demand node is evaluated in that tick.
C2_AtMostOneDrainPerTick ==
    /\ drains <= 1
    /\ pc \in {"loop", "plan", "draining"} => drains = 0

C2_Witness ==
    pc = "idle" /\ drains = 1 /\ idx < Len(onDemandNodeInfos)

\* C3: after any drain attempt, failed or not, the tick ends with
\* nextDrainTime >= tick_start + nodeDrainDelay.
C3_CooldownArmed ==
    (pc = "idle" /\ drains > 0) => nextDrainTime >= tickStart + NodeDrainDelay

C3_Witness ==
    pc = "idle" /\ drains = 1 /\ nodeDrainCount.Failure = 1 /\ nodeDrainCount.Success = 0

\* C4: a tick in which unschedulable pods are listed neither drains nor reconciles
\* taints: it ends at once.
C4_Backpressure ==
    unschedulablePods > 0 => (pc = "idle" /\ drains = 0 /\ ~reconciled)

C4_Witness ==
    unschedulablePods > 0 /\ tickStart >= nextDrainTime

\* C5: no pod with an owner reference of kind DaemonSet and controller true is in
\* the movable set handed to the planner and to the drain executor.
C5_NoDaemonSetPodMovable ==
    \A i \in DOMAIN podsForDeletion : ~OwnedByDaemonSetController(podsForDeletion[i])

C5_Witness ==
    pc = "draining" /\ ignored > 0

\* C6: a node with a movable pod annotated safe-to-evict=false is not drained,
\* whether or not a spot node accepts the pod.
C6_NotSafeToEvictBlocksDrain ==
    pc = "draining" => \A i \in DOMAIN podsForDeletion : podsForDeletion[i].safeToEvict # "false"

\* C7: fork/revert symmetry: every on-demand node is planned against the snapshot
\* built at tick start; a failed plan leaves none of its placements behind.
C7_ForkRevertSymmetry ==
    pc \in {"loop", "plan"} => spotSnapshot = GetClusterSnapshot(spotNodeInfos)

C7_Witness ==
    /\ pc = "loop"
    /\ idx > 1
    /\ idx <= Len(onDemandNodeInfos)
    /\ outcomes[idx - 1] = "planFailed"
    /\ \E i \in DOMAIN placement : placement[i] # NoNode

\* C8 as stated: when the planner succeeds, on every spot node the requests already
\* on it plus the requests the plan placed on it are within its allocatable.  (Taken
\* on the plans that found a spot node for every pod.)
C8_NoOverCommitOnAnyNode ==
    (pc = "draining" /\ \A i \in DOMAIN placement : placement[i] # NoNode) =>
        \A j \in DOMAIN spotNodeInfos :
            spotNodeInfos[j].requested + PlacedCpu(j) <= spotNodeInfos[j].alloc

\* C8 as amended: when the planner succeeds, on every spot node that was not
\* over-committed when the snapshot was built, the requests already on it plus the
\* requests the plan placed on it are within its allocatable, and the snapshot
\* holds exactly that sum.
C8_NoOverCommitByPlan ==
    pc = "draining" =>
        \A j \in DOMAIN spotNodeInfos :
            /\ spotSnapshot.nodes[j].requested = spotNodeInfos[j].requested + PlacedCpu(j)
            /\ spotNodeInfos[j].requested <= spotNodeInfos[j].alloc
                  => spotNodeInfos[j].requested + PlacedCpu(j) <= spotNodeInfos[j].alloc

\* two pods of one plan, the first filling its node, the second placed elsewhere
C8_Witness ==
    /\ pc = "draining"
    /\ Len(podsForDeletion) = 2
    /\ placement[1] # NoNode
    /\ placement[2] # NoNode
    /\ placement[2] # placement[1]
    /\ spotNodeInfos[placement[1]].requested + podsForDeletion[1].cpu
          = spotNodeInfos[placement[1]].alloc

\* C9: no two drains overlap: a drain starts no earlier than nodeDrainDelay after
\* the drain attempt before it returned.
C9_DrainsDoNotOverlap ==
    (pc = "draining" /\ lastDrainEnd # NoTime) => clock >= lastDrainEnd + NodeDrainDelay

C9_Witness ==
    pc = "draining" /\ lastDrainEnd # NoTime

\* C10: nothing within a tick terminates the process.
C10_TickNeverTerminatesProcess ==
    pc # "crashed"

\* the number of taints with key k in a Spec.Taints
RECURSIVE TaintCount(_, _)
TaintCount(taints, k) ==
    IF taints = <<>> THEN 0
    ELSE (IF Head(taints) = k THEN 1 ELSE 0) + TaintCount(Tail(taints), k)

\* the CPU the plan placed on spot node j before it came to pod i
RECURSIVE PlacedBefore(_, _)
PlacedBefore(j, i) ==
    IF i <= 1 THEN 0
    ELSE (IF placement[i - 1] = j THEN podsForDeletion[i - 1].cpu ELSE 0) + PlacedBefore(j, i - 1)

\* spot node j had room for pod i when the plan came to it
HadRoom(j, i) ==
    spotNodeInfos[j].requested + PlacedBefore(j, i) + podsForDeletion[i].cpu
        <= spotNodeInfos[j].alloc

\* C11: a tick in which a listing failed is skipped: it goes no further, so it
\* updates no taint, drains nothing and leaves nextDrainTime as it was.
C11_ListFailureSkipsTick ==
    [][(pc = "listed" /\ listErr) =>
           (pc' = "idle" /\ ~reconciled' /\ drains' = 0 /\ nextDrainTime' = nextDrainTime)]_vars

\* C12: when a taint key is configured and no Update fails, the reconciler leaves a
\* spot node with no taint of that key and with every taint of another key, however
\* many taints of the key the node has and wherever they are.
C12_TaintsReconciled ==
    \A n \in DOMAIN nodeTaints :
        ~nodeTaints[n].updateFailed =>
            /\ TaintCount(nodeTaints[n].left, spotTaintToBeRemoved) = 0
            /\ \A k \in TaintKeys \ {spotTaintToBeRemoved} :
                   TaintCount(nodeTaints[n].left, k) = TaintCount(nodeTaints[n].listed, k)

\* C13: once the stop signal is raised the loop ends at the next tick boundary: no
\* further tick is executed.
C13_NoTickAfterStop ==
    [][(stopChannel = "closed" /\ pc = "idle") => (pc' = "idle" /\ tickStart' = tickStart)]_vars

C15_FirstFit ==
    pc = "draining" =>
        \A i \in DOMAIN placement :
            IF placement[i] = NoNode
            THEN \A j \in DOMAIN spotNodeInfos : ~HadRoom(j, i)
            ELSE /\ HadRoom(placement[i], i)
                 /\ \A j \in 1..(placement[i] - 1) : ~HadRoom(j, i)

\* the second pod goes to the second node only because the first pod took the room
\* the first node had
C15_Witness ==
    /\ pc = "draining"
    /\ Len(placement) = 2
    /\ placement[1] = 1
    /\ placement[2] = 2
    /\ spotNodeInfos[1].requested + podsForDeletion[2].cpu <= spotNodeInfos[1].alloc

\* C16: the node drained in a tick is the first of the on-demand sequence that has a
\* movable pod and a plan that succeeds: every node before it in the sequence was
\* looked at, in order, and skipped for a filter error, for having no movable pod or
\* for a plan that failed.
C16_FirstDrainableNodeIsDrained ==
    pc = "draining" =>
        /\ idx \in DOMAIN onDemandNodeInfos
        /\ Len(podsForDeletion) >= 1
        /\ Len(outcomes) = idx - 1
        /\ \A k \in 1..(idx - 1) : outcomes[k] \in {"filterError", "noPods", "planFailed"}

C16_Witness ==
    /\ pc = "draining"
    /\ idx = 2
    /\ outcomes[1] = "planFailed"

\* C17: nextDrainTime is left as it was by every step of a tick but the call of the
\* drain executor: by a tick the cooldown or the backpressure gate ends, by a tick over
\* an empty cluster, and by a tick in which every on-demand node is skipped.
C17_OnlyDrainMovesCooldown ==
    [][pc # "draining" => nextDrainTime' = nextDrainTime]_vars

\* a tick after a drain went through every on-demand node and drained none: the
\* cooldown is still the one the drain armed
C17_Witness ==
    /\ pc = "idle"
    /\ reconciled
    /\ drains = 0
    /\ Len(onDemandNodeInfos) > 0
    /\ idx > Len(onDemandNodeInfos)
    /\ lastDrainEnd # NoTime
    /\ nextDrainTime = lastDrainEnd + NodeDrainDelay

\* C18: the planner leaves the pods it was given as they were: every pod handed to
\* the drain executor still names the on-demand node it is on.
C18_PlannerLeavesPodsUnchanged ==
    pc = "draining" =>
        \A i \in DOMAIN podsForDeletion : podsForDeletion[i].nodeName = onDemandNodeInfos[idx]

\* C19: every drain attempt adds one to exactly one counter, the Failure counter of
\* the node when drainNode returns an error and its Success counter when it returns
\* none; no other step changes a counter.
C19_DrainCounted ==
    [][IF pc = "draining"
       THEN nodeDrainCount' =
                UpdateNodeDrainCount(nodeDrainCount, IF drainErr' THEN "Failure" ELSE "Success",
                                     onDemandNodeInfos[idx])
       ELSE nodeDrainCount' = nodeDrainCount]_vars

\* a failed drain and, a cooldown later, a drain that succeeded
C19_Witness ==
    /\ pc = "idle"
    /\ ~drainErr
    /\ drains = 1
    /\ nodeDrainCount.Failure = 1
    /\ nodeDrainCount.Success = 1

\* C20: the pods handed to the drain executor are pods of the one on-demand node
\* that is drained, and they are the pods the planner went through for that node: no
\* pod of another node is handed over.
C20_OnlyPodsOfDrainedNode ==
    pc = "draining" =>
        /\ Len(placement) = Len(podsForDeletion)
        /\ \A i \in DOMAIN podsForDeletion :
               podsForDeletion[i].listedOn = onDemandNodeInfos[idx]

\* the second of two on-demand nodes is drained, with two pods, after the pods of the
\* first were looked at, and there are spot nodes
C20_Witness ==
    /\ pc = "draining"
    /\ idx = 2
    /\ Len(outcomes) = 1
    /\ Len(podsForDeletion) = 2
    /\ Len(spotNodeInfos) >= 1

\* Cooling: the loop waits for its timer with the cooldown armed.
Cooling == pc = "idle" /\ nextDrainTime > clock

\* Evaluating: the tick that began at tickStart passed the cooldown gate.
Evaluating == tickStart > 0 /\ tickStart >= nextDrainTime

\* C21: the cooldown never blocks the loop forever: before any drain every tick, the
\* first one included, passes the cooldown gate; every drain attempt is followed at
\* once by Cooling; and from Cooling, under fair ticks and while the clock can reach
\* nextDrainTime, a later tick passes the cooldown gate (Cooling leads to Evaluating).
C21_CoolingLeadsToEvaluating ==
    /\ []((lastDrainEnd = NoTime /\ tickStart > 0) => Evaluating)
    /\ [][pc = "draining" => Cooling']_vars
    /\ (Cooling /\ nextDrainTime <= MaxClock) ~> Evaluating

\* a tick after a drain has passed the cooldown gate
C21_Witness ==
    /\ pc = "listed"
    /\ lastDrainEnd # NoTime
    /\ Evaluating

====
